---- MODULE Spec2Model ----
(***************************************************************************)
(* RAGKB (phase2_src/rag_kb.py): the knowledge-base build pipeline         *)
(* (documents -> three chunks per document -> embeddings -> FAISS index)   *)
(* and the search engine (query enhancement -> vector search with HMO      *)
(* filter -> keyword fallback -> formatted string).                        *)
(*                                                                         *)
(* Text is a sequence of tokens.  Every token stands for one concrete      *)
(* string of the program (a word, a label, a literal of the code); its     *)
(* length in characters is CharLen and the dictionary terms it contains as *)
(* a substring are TermsIn.  " " and "\n" are the whitespace tokens.       *)
(***************************************************************************)
EXTENDS Integers, Sequences, FiniteSets, TLC

VARIABLES
    docs,              \* the corpus directory: the *.html files, in glob order
    azure_client,      \* self.azure_client: None or "client"
    provider,          \* how the provider answers the build: "up" "down" "limit"
    pc,                \* position of the constructor: "load" "embed" "index" "done"
    next_doc,          \* index of the next file of the for loop of line 63
    chunks,            \* self.chunks
    embeddings,        \* self.embeddings
    batch_embeddings,  \* batch_embeddings of the running batch (line 327)
    next_chunk,        \* index of the next chunk to embed (lines 320/328)
    cleared,           \* clear_embeddings has been called
    faiss_index,       \* self.faiss_index: NoIndex or the vectors added to it
    last_call          \* the latest search_services call on the engine as it is

vars == <<docs, azure_client, provider, pc, next_doc, chunks, embeddings,
          batch_embeddings, next_chunk, cleared, faiss_index, last_call>>

None == "None"

\* self.faiss_index = None
NoIndex == [built |-> FALSE, vectors |-> <<>>]

\* No search_services call has been made yet.
NoCall ==
    [called |-> FALSE, query |-> <<>>, hmo_name |-> None, top_k |-> 0, language |-> "he",
     provider_ok |-> FALSE, text |-> <<>>]

(***************************************************************************)
(* Bounds                                                                  *)
(***************************************************************************)
MaxDocs == 4
MaxTextLen == 3
ProviderLimit == 40
MaxTopK == 4

(***************************************************************************)
(* Tokens                                                                  *)
(***************************************************************************)
HMOS == <<"maccabi", "meuhedet", "clalit">>

HebrewOf(hmo) ==
    CASE hmo = "maccabi" -> "he_maccabi"       \* the label of line 102
      [] hmo = "meuhedet" -> "he_meuhedet"     \* line 106
      [] hmo = "clalit" -> "he_clalit"         \* line 110

HebrewLabels == {"he_maccabi", "he_meuhedet", "he_clalit"}

TagTokens == {"<p>", "<script>", "</script>", "<style>", "</style>"}

IsSpace(t) == t \in {" ", "\n"}

\* len() of the string a token stands for.
CharLen(t) ==
    CASE t \in {" ", "\n"} -> 1
      [] t = "he_maccabi" -> 4
      [] t = "he_meuhedet" -> 6
      [] t = "he_clalit" -> 5
      [] t \in {"maccabi"} -> 7
      [] t \in {"meuhedet"} -> 8
      [] t \in {"clalit", "dental", "Dental"} -> 6
      [] t \in {"optometry", "pregnancy", "workshops"} -> 9
      [] t = "he_shinayim" -> 6
      [] t = "he_shinei" -> 4
      [] t = "he_dentali" -> 5
      [] t = "he_dikur" -> 5
      [] t = "he_sini" -> 4
      [] t = "he_akupunktura" -> 12
      [] t = "acupuncture" -> 11
      [] t = "teeth" -> 5
      [] t = "zzz" -> 3
      [] t = "LONG" -> 60                 \* a paragraph with no dictionary term
      [] t = "NF" -> 12                   \* the phrase tested at lines 436/439
      [] t = "none_he_tail" -> 32         \* the rest of the sentinel of line 630
      [] t = "none_en" -> 64              \* line 632
      [] t = "err_he" -> 19               \* lines 448, 584, 637
      [] t = "err_en" -> 32               \* lines 586, 639
      [] t = "not_ready" -> 30            \* line 445
      [] t = "hdr_vec_he" -> 32           \* line 571
      [] t = "hdr_vec_en" -> 44           \* line 574
      [] t = "hdr_kw_he" -> 37            \* line 624
      [] t = "hdr_kw_en" -> 45            \* line 626
      [] t = "SOURCE" -> 6                \* lines 565, 616
      [] t \in {": [", " - "} -> 3
      [] t = "]" -> 1
      [] t = "<p>" -> 3
      [] t \in {"<script>", "</style>"} -> 8
      [] t = "</script>" -> 9
      [] t = "<style>" -> 7
      [] t = "url_hmo" -> 27              \* https://www.maccabi4u.co.il
      [] t = "url_other" -> 19            \* https://example.org
      [] t = "tel" -> 17                  \* a phone pattern match of line 284
      [] t = "num" -> 10                  \* its captured group
      [] t = "ext" -> 8                   \* an extension match of line 292
      [] t = "extnum" -> 2
      [] t = ", " -> 2
      [] t = "gen_general" -> 26          \* line 230, up to the label
      [] t = "fb_pre" -> 7                \* line 157
      [] t = "for" -> 6                   \* " <avur> " of lines 157/172
      [] t = "fb_post" -> 33
      [] t = "exc_pre" -> 8               \* line 172
      [] t = "web_lbl" -> 13              \* line 272
      [] t = "contact_hdr" -> 9           \* line 298
      [] t = "tel_lbl" -> 7               \* line 289
      [] t = "ext_lbl" -> 7               \* line 295
      [] t = "] " -> 2                    \* line 712
      [] t = "al" -> 4                    \* " <al> " of line 716
      [] t = "sherut" -> 6                \* line 717, up to the name
      [] t = "lo_nimtza" -> 8             \* line 717, after the name
      [] OTHER -> 1

\* The dictionary terms and labels that occur in the token's string.
TermsIn(t) ==
    CASE t = "he_shinayim" -> {"he_shinayim", "he_shinei"}
      [] t \in {"tel", "tel_lbl"} -> {"he_telefon"}
      [] t = "url_hmo" -> {"maccabi"}
      [] t \in {"LONG", "Dental", "Maccabi", "num", "ext", "extnum", ", ", "gen_general",
                "fb_pre", "for", "fb_post", "exc_pre", "contact_hdr", "ext_lbl",
                "url_other", " ", "\n"} \cup TagTokens -> {}
      [] t = "web_lbl" -> {"he_atar"}
      [] OTHER -> {t}

\* str.lower() of a token.
Lower(t) ==
    CASE t = "Dental" -> "dental"
      [] t = "Maccabi" -> "maccabi"
      [] t = "Gold" -> "gold"
      [] OTHER -> t

\* term in text
Has(text, term) == \E i \in 1..Len(text) : term \in TermsIn(text[i])

LowerText(text) == [i \in 1..Len(text) |-> Lower(text[i])]

RECURSIVE StrLen(_)
StrLen(text) == IF text = <<>> THEN 0 ELSE CharLen(Head(text)) + StrLen(Tail(text))

(***************************************************************************)
(* String helpers                                                          *)
(***************************************************************************)
RECURSIVE LStrip(_)
LStrip(s) == IF s # <<>> /\ IsSpace(Head(s)) THEN LStrip(Tail(s)) ELSE s

RECURSIVE RStrip(_)
RStrip(s) ==
    IF s # <<>> /\ IsSpace(s[Len(s)]) THEN RStrip(SubSeq(s, 1, Len(s) - 1)) ELSE s

\* str.strip()
Strip(s) == RStrip(LStrip(s))

\* re.sub(r'\s+', ' ', s)
RECURSIVE CollapseWs(_)
CollapseWs(s) ==
    IF s = <<>> THEN <<>>
    ELSE IF IsSpace(Head(s)) THEN <<" ">> \o CollapseWs(LStrip(s))
    ELSE <<Head(s)>> \o CollapseWs(Tail(s))

\* str.split('\n')
RECURSIVE SplitLines(_, _)
SplitLines(s, cur) ==
    IF s = <<>> THEN <<cur>>
    ELSE IF Head(s) = "\n" THEN <<cur>> \o SplitLines(Tail(s), <<>>)
    ELSE SplitLines(Tail(s), Append(cur, Head(s)))

\* sep.join(parts)
RECURSIVE Join(_, _)
Join(parts, sep) ==
    IF parts = <<>> THEN <<>>
    ELSE IF Len(parts) = 1 THEN Head(parts)
    ELSE Head(parts) \o sep \o Join(Tail(parts), sep)

RECURSIVE Concat(_)
Concat(parts) == IF parts = <<>> THEN <<>> ELSE Head(parts) \o Concat(Tail(parts))

RECURSIVE SelectTokens(_, _)
SelectTokens(s, keep) ==
    IF s = <<>> THEN <<>>
    ELSE IF Head(s) \in keep THEN <<Head(s)>> \o SelectTokens(Tail(s), keep)
    ELSE SelectTokens(Tail(s), keep)

Min(a, b) == IF a < b THEN a ELSE b
Max(a, b) == IF a > b THEN a ELSE b

(***************************************************************************)
(* _clean_html                                                             *)
(***************************************************************************)
\* re.sub(r'<open[^>]*>.*?</open>', '', s, flags=re.DOTALL)
RECURSIVE RemoveBlocks(_, _, _)
RemoveBlocks(s, open, close) ==
    IF s = <<>> THEN <<>>
    ELSE IF Head(s) = open /\ \E j \in 2..Len(s) : s[j] = close
         THEN LET j == CHOOSE k \in 2..Len(s) :
                           s[k] = close /\ \A m \in 2..(k - 1) : s[m] # close
              IN RemoveBlocks(SubSeq(s, j + 1, Len(s)), open, close)
         ELSE <<Head(s)>> \o RemoveBlocks(Tail(s), open, close)

\* re.sub(r'<[^>]+>', ' ', s)
TagsToSpace(s) == [i \in 1..Len(s) |-> IF s[i] \in TagTokens THEN " " ELSE s[i]]

\* _clean_html without the whitespace collapse of line 133: line breaks stay.
clean_html_no_collapse(html_content) ==
    LET no_script == RemoveBlocks(html_content, "<script>", "</script>")
        no_style == RemoveBlocks(no_script, "<style>", "</style>")
    IN Strip(TagsToSpace(no_style))

clean_html(html_content) ==
    LET no_script == RemoveBlocks(html_content, "<script>", "</script>")
        no_style == RemoveBlocks(no_script, "<style>", "</style>")
    IN Strip(CollapseWs(TagsToSpace(no_style)))

(***************************************************************************)
(* _find_hmo_specific_content and the extractors                           *)
(***************************************************************************)
\* The for loop of lines 192-202; returns current_section.
RECURSIVE ScanSections(_, _, _, _)
ScanSections(sections, hmo_hebrew, current_section, in_hmo_section) ==
    IF sections = <<>> THEN current_section
    ELSE LET line == Head(sections) IN
         IF Has(line, hmo_hebrew)
         THEN ScanSections(Tail(sections), hmo_hebrew, line, TRUE)
         ELSE IF in_hmo_section
         THEN IF (\E other \in HebrewLabels : Has(line, other)) /\ ~Has(line, hmo_hebrew)
              THEN current_section
              ELSE ScanSections(Tail(sections), hmo_hebrew,
                                current_section \o <<"\n">> \o line, TRUE)
         ELSE ScanSections(Tail(sections), hmo_hebrew, current_section, FALSE)

WebsiteKeywords == {"he_atar", "website", "contact"}

\* _find_website_sections: every keyword line with the four lines after it.
find_website_sections(content) ==
    LET sections == SplitLines(content, <<>>)
        hit(i) == \E k \in WebsiteKeywords : Has(sections[i], k)
        ctx(i) == IF hit(i) THEN SubSeq(sections, i, Min(Len(sections), i + 4))
                  ELSE <<>>
    IN Concat([i \in 1..Len(sections) |-> ctx(i)])

find_hmo_specific_content(content, hmo_hebrew) ==
    LET sections == SplitLines(content, <<>>)
        current_section == ScanSections(sections, hmo_hebrew, <<>>, FALSE)
        window(i) == IF Has(sections[i], hmo_hebrew)
                     THEN SubSeq(sections, Max(1, i - 2), Min(Len(sections), i + 2))
                     ELSE <<>>
        hmo_mentions == Concat([i \in 1..Len(sections) |-> window(i)])
    IN IF current_section # <<>>
       THEN Strip(CollapseWs(current_section))
       ELSE IF hmo_mentions # <<>>
       THEN Strip(CollapseWs(Join(hmo_mentions \o find_website_sections(content),
                                  <<"\n">>)))
       ELSE <<"gen_general", hmo_hebrew>>

\* _extract_website_info: the URLs of the content that name an HMO.
extract_website_info(content) ==
    LET hmo_websites == SelectTokens(content, {"url_hmo"})
    IN IF hmo_websites # <<>>
       THEN <<"web_lbl">> \o Join([i \in 1..Len(hmo_websites) |-> <<hmo_websites[i]>>],
                                  <<", ">>)
       ELSE <<>>

\* _extract_contact_info: phone numbers and extensions.
extract_contact_info(content) ==
    LET phones == SelectTokens(content, {"tel"})
        extensions == SelectTokens(content, {"ext"})
        phone_line == IF phones # <<>>
                      THEN << <<"tel_lbl">> \o Join([i \in 1..Len(phones) |-> <<"num">>],
                                                    <<", ">>) >>
                      ELSE <<>>
        ext_line == IF extensions # <<>>
                    THEN << <<"ext_lbl">> \o
                            Join([i \in 1..Len(extensions) |-> <<"extnum">>], <<", ">>) >>
                    ELSE <<>>
        contact_info == phone_line \o ext_line
    IN IF contact_info # <<>>
       THEN <<"contact_hdr", "\n">> \o Join(contact_info, <<"\n">>)
       ELSE <<>>

Chunk(content, service_name, hmo_english) ==
    [content |-> content, service |-> service_name, chunk_type |-> hmo_english,
     chunk_id |-> <<service_name, hmo_english>>, hmo |-> hmo_english,
     hmo_hebrew |-> HebrewOf(hmo_english)]

\* _extract_hmo_chunk keeping only the collected section: no general sentence,
\* no fallback sentence, no error chunk.
extract_hmo_chunk_section_only(content, service_name, hmo_english, raises) ==
    Chunk(Strip(CollapseWs(ScanSections(SplitLines(content, <<>>), HebrewOf(hmo_english),
                                        <<>>, FALSE))),
          service_name, hmo_english)

\* _extract_hmo_chunk; `raises`: the try body raised (lines 169-179).
extract_hmo_chunk(content, service_name, hmo_english, raises) ==
    LET hmo_hebrew == HebrewOf(hmo_english)
        hmo_content == find_hmo_specific_content(content, hmo_hebrew)
        website_info == extract_website_info(content)
        contact_info == extract_contact_info(content)
        with_site == IF website_info # <<>>
                     THEN hmo_content \o <<"\n", "\n">> \o website_info
                     ELSE hmo_content
        full_content == IF contact_info # <<>>
                        THEN with_site \o <<"\n", "\n">> \o contact_info
                        ELSE with_site
    IN IF raises
       THEN Chunk(<<"exc_pre", service_name, "for", hmo_hebrew>>, service_name,
                  hmo_english)
       ELSE IF Strip(full_content) = <<>>
       THEN Chunk(<<"fb_pre", service_name, "for", hmo_hebrew, "fb_post">>,
                  service_name, hmo_english)
       ELSE Chunk(full_content, service_name, hmo_english)

\* _create_three_chunks; doc.fault: "read" (open/read raises) or the HMO whose
\* _extract_hmo_chunk raises internally, or "none".
create_three_chunks(doc) ==
    IF doc.fault = "read"
    THEN <<>>
    ELSE LET clean_content == clean_html(doc.raw)
         IN [i \in 1..3 |-> extract_hmo_chunk(clean_content, doc.service, HMOS[i],
                                              doc.fault = HMOS[i])]

(***************************************************************************)
(* Embeddings.  A vector is [dim, val]: its number of components and the   *)
(* value that decides its L2 distance to other vectors of the same dim.    *)
(***************************************************************************)
\* hashlib.md5(text.encode()).hexdigest(), as the number of hex pairs (line 386)
\* and a digest value.
HexPairs == 16
EmbDim == 128
AzureDim == 1536

RECURSIVE Md5(_, _)
Md5(text, h) ==
    IF text = <<>> THEN h ELSE Md5(Tail(text), (h * 3 + CharLen(Head(text))) % 7)

\* _create_simple_embedding without the padding loop of lines 392-393.
create_simple_embedding_unpadded(text) ==
    [dim |-> Min(HexPairs, EmbDim), val |-> Md5(text, 0)]

\* _create_simple_embedding: the hex pairs, padded with 0.0 to 128, cut to 128.
create_simple_embedding(text) ==
    LET taken == Min(HexPairs, EmbDim)
        padded == IF taken < EmbDim THEN EmbDim - taken ELSE 0
    IN [dim |-> Min(taken + padded, EmbDim), val |-> Md5(text, 0)]

\* response.data[0].embedding of a successful provider call (line 362): the
\* provider is a function of the text.
AzureEmbedding(text) == [dim |-> AzureDim, val |-> (StrLen(text) + Len(text)) % 5]

\* _get_azure_embedding: the provider's vector, or the fallback when the call fails.
get_azure_embedding(text, provider_ok) ==
    IF provider_ok THEN AzureEmbedding(text) ELSE create_simple_embedding(text)

\* _create_simple_embeddings: one more vector per chunk, appended.
create_simple_embeddings(embs, chs) ==
    embs \o [i \in 1..Len(chs) |-> create_simple_embedding(chs[i].content)]

batch_size == 6

\* Whether the provider answers the build's call for a text: always, never, or
\* for the texts of at most ProviderLimit characters only.
ProviderAnswers(text) ==
    CASE provider = "up" -> TRUE
      [] provider = "down" -> FALSE
      [] provider = "limit" -> StrLen(text) <= ProviderLimit

(***************************************************************************)
(* The corpus                                                              *)
(***************************************************************************)
Services == <<"dental", "optometry", "pregnancy", "workshops">>

\* What a file of the corpus directory may hold: a paragraph that names one HMO,
\* a line per HMO, or bytes that open(..., encoding='utf-8') cannot read.
DocKinds ==
    << [raw |-> <<"<p>", "he_maccabi", " ", "dental", "\n", "LONG", "<p>">>,
        fault |-> "none"],
       [raw |-> <<"he_maccabi", " ", "he_dikur", "\n", "he_meuhedet", " ", "NF", "\n",
                  "he_clalit", " ", "acupuncture", " ", "tel">>, fault |-> "none"],
       [raw |-> <<"dental">>, fault |-> "read"],
       [raw |-> <<"he_maccabi", " ", "he_shinayim">>, fault |-> "none"] >>

\* The i-th candidate file: <service>.html and what it holds.
File(i) ==
    LET kind == DocKinds[((i - 1) % Len(DocKinds)) + 1]
    IN [service |-> Services[((i - 1) % Len(Services)) + 1], raw |-> kind.raw,
        fault |-> kind.fault]

\* The files numbered from..MaxDocs that are in the set present, in glob order.
RECURSIVE Listing(_, _)
Listing(present, from) ==
    IF from > MaxDocs THEN <<>>
    ELSE IF from \in present THEN <<File(from)>> \o Listing(present, from + 1)
    ELSE Listing(present, from + 1)

\* The corpus directories: any subset of the candidate files.
Corpora == { Listing(present, 1) : present \in SUBSET (1..MaxDocs) }

Init ==
    /\ docs \in Corpora
    /\ azure_client \in {None, "client"}
    /\ provider \in IF azure_client = None THEN {"up"} ELSE {"up", "down", "limit"}
    /\ pc = "load"
    /\ next_doc = 1
    /\ chunks = <<>>
    /\ embeddings = <<>>
    /\ batch_embeddings = <<>>
    /\ next_chunk = 1
    /\ cleared = FALSE
    /\ faiss_index = NoIndex
    /\ last_call = NoCall

(***************************************************************************)
(* The constructor: _load_and_process_data                                 *)
(***************************************************************************)
\* The for loop of lines 63-73 without its own handler: a document that cannot
\* be processed ends the whole load at the handler of lines 83-84.
LoadDoc_outer_handler ==
    /\ pc = "load"
    /\ next_doc <= Len(docs)
    /\ chunks' = chunks \o create_three_chunks(docs[next_doc])
    /\ next_doc' = next_doc + 1
    /\ pc' = IF docs[next_doc].fault = "read" THEN "done" ELSE pc
    /\ UNCHANGED <<docs, azure_client, provider, embeddings, batch_embeddings, next_chunk,
                   cleared, faiss_index, last_call>>

\* One iteration of the for loop of lines 63-73.
LoadDoc ==
    /\ pc = "load"
    /\ next_doc <= Len(docs)
    /\ chunks' = chunks \o create_three_chunks(docs[next_doc])
    /\ next_doc' = next_doc + 1
    /\ UNCHANGED <<docs, azure_client, provider, pc, embeddings, batch_embeddings, next_chunk,
                   cleared, faiss_index, last_call>>

\* The loop is over: lines 57-59 and 78.
LoadDone ==
    /\ pc = "load"
    /\ next_doc > Len(docs)
    /\ pc' = IF chunks # <<>> THEN "embed" ELSE "done"
    /\ UNCHANGED <<docs, azure_client, provider, next_doc, chunks, embeddings, batch_embeddings,
                   next_chunk, cleared, faiss_index, last_call>>

\* _create_embeddings without a client: lines 309-312.
CreateSimpleEmbeddings ==
    /\ pc = "embed"
    /\ azure_client = None
    /\ embeddings' = create_simple_embeddings(embeddings, chunks)
    /\ pc' = "index"
    /\ UNCHANGED <<docs, azure_client, provider, next_doc, chunks, batch_embeddings, next_chunk,
                   cleared, faiss_index, last_call>>

BatchFull == Len(batch_embeddings) = Min(batch_size, Len(chunks) - Len(embeddings))

\* One iteration of the inner loop of lines 328-336: the provider answers or fails.
EmbedChunk ==
    /\ pc = "embed"
    /\ azure_client # None
    /\ next_chunk <= Len(chunks)
    /\ ~BatchFull
    /\ batch_embeddings' = Append(batch_embeddings,
           get_azure_embedding(chunks[next_chunk].content,
                               ProviderAnswers(chunks[next_chunk].content)))
    /\ next_chunk' = next_chunk + 1
    /\ UNCHANGED <<docs, azure_client, provider, pc, next_doc, chunks, embeddings,
                   cleared, faiss_index, last_call>>

\* Line 339: the batch joins the main list.
ExtendEmbeddings ==
    /\ pc = "embed"
    /\ azure_client # None
    /\ batch_embeddings # <<>>
    /\ BatchFull
    /\ embeddings' = embeddings \o batch_embeddings
    /\ batch_embeddings' = <<>>
    /\ UNCHANGED <<docs, azure_client, provider, pc, next_doc, chunks, next_chunk,
                   cleared, faiss_index, last_call>>

\* The batch loop has run through: line 348.
FinishEmbeddings ==
    /\ pc = "embed"
    /\ azure_client # None
    /\ batch_embeddings = <<>>
    /\ next_chunk > Len(chunks)
    /\ pc' = "index"
    /\ next_chunk' = 1
    /\ UNCHANGED <<docs, azure_client, provider, next_doc, chunks, embeddings, batch_embeddings,
                   cleared, faiss_index, last_call>>

\* Lines 350-353: an exception inside the batch loop (outside the per-chunk try)
\* abandons the loop and runs _create_simple_embeddings on the list as it is.
CreateEmbeddingsError ==
    /\ pc = "embed"
    /\ azure_client # None
    /\ embeddings' = create_simple_embeddings(embeddings, chunks)
    /\ batch_embeddings' = <<>>
    /\ next_chunk' = 1
    /\ pc' = "index"
    /\ UNCHANGED <<docs, azure_client, provider, next_doc, chunks, cleared,
                   faiss_index, last_call>>

\* np.array(self.embeddings, dtype=np.float32) needs rows of one length.
Homogeneous(embs) == \A i, j \in 1..Len(embs) : embs[i].dim = embs[j].dim

\* _build_faiss_index: the index holds a copy of the vectors, or stays None.
build_faiss_index(embs) ==
    IF embs = <<>> THEN NoIndex
    ELSE IF Homogeneous(embs) THEN [built |-> TRUE, vectors |-> embs]
    ELSE NoIndex

BuildIndex ==
    /\ pc = "index"
    /\ faiss_index' = build_faiss_index(embeddings)
    /\ pc' = "done"
    /\ UNCHANGED <<docs, azure_client, provider, next_doc, chunks, embeddings, batch_embeddings,
                   next_chunk, cleared, last_call>>

\* A clear that drops the chunk list as well.
ClearEmbeddings_drops_chunks ==
    /\ pc = "done"
    /\ embeddings' = <<>>
    /\ faiss_index' = NoIndex
    /\ chunks' = <<>>
    /\ cleared' = TRUE
    /\ last_call' = NoCall
    /\ UNCHANGED <<docs, azure_client, provider, pc, next_doc, batch_embeddings,
                   next_chunk>>

\* clear_embeddings; the calls made before it are forgotten.
ClearEmbeddings ==
    /\ pc = "done"
    /\ embeddings' = <<>>
    /\ faiss_index' = NoIndex
    /\ cleared' = TRUE
    /\ last_call' = NoCall
    /\ UNCHANGED <<docs, azure_client, provider, pc, next_doc, chunks, batch_embeddings,
                   next_chunk>>

(***************************************************************************)
(* Query enhancement and the dictionaries.  The dictionaries are modelled  *)
(* on the entries dental, teeth, acupuncture and phone; a term is a text.         *)
(***************************************************************************)
HebrewTokens ==
    HebrewLabels \cup {"he_shinayim", "he_shinei", "he_dentali", "he_dikur", "he_sini",
                       "he_akupunktura", "he_telefon", "he_telefonit", "NF"}

\* any('֐' <= char <= '׿' for char in query)
HasHebrew(query) == \E i \in 1..Len(query) : query[i] \in HebrewTokens

\* term in text, for a term of several words.
PhraseIn(phrase, text) ==
    \E off \in 0..(Len(text) - Len(phrase)) :
        \A j \in 1..Len(phrase) :
            IF IsSpace(phrase[j]) THEN text[off + j] = phrase[j]
            ELSE phrase[j] \in TermsIn(text[off + j])

\* medical_terms_mapping (lines 454-492), in dictionary order.
medical_terms_mapping ==
    << [english |-> "dental",
        hebrew |-> << <<"he_shinayim">>, <<"he_shinei">>, <<"he_dentali">> >>],
       [english |-> "teeth", hebrew |-> << <<"he_shinayim">>, <<"he_shinei">> >>],
       [english |-> "acupuncture",
        hebrew |-> << <<"he_dikur", " ", "he_sini">>, <<"he_akupunktura">> >>],
       [english |-> "phone",
        hebrew |-> << <<"he_telefon">>, <<"he_telefonit">> >>] >>

\* An enhancement that builds its result from the lowercased query.
enhance_query_from_lowercase(query, language) ==
    LET query_lower == LowerText(query)
        to_hebrew(e) == IF Has(query_lower, e.english) THEN e.hebrew ELSE <<>>
        added_terms == Concat([i \in 1..Len(medical_terms_mapping) |->
                                  to_hebrew(medical_terms_mapping[i])])
    IN IF added_terms # <<>> THEN query_lower \o <<" ">> \o Join(added_terms, <<" ">>)
       ELSE query_lower

\* _enhance_query_for_multilingual_search
enhance_query_for_multilingual_search(query, language) ==
    LET query_lower == LowerText(query)
        to_hebrew(e) == IF Has(query_lower, e.english) THEN e.hebrew ELSE <<>>
        to_english(e) == IF \E k \in 1..Len(e.hebrew) : PhraseIn(e.hebrew[k], query_lower)
                         THEN << <<e.english>> >> ELSE <<>>
        added_hebrew == Concat([i \in 1..Len(medical_terms_mapping) |->
                                   to_hebrew(medical_terms_mapping[i])])
        added_english == Concat([i \in 1..Len(medical_terms_mapping) |->
                                    to_english(medical_terms_mapping[i])])
        added_terms == IF language = "en" \/ ~HasHebrew(query) THEN added_hebrew
                       ELSE added_english
    IN IF added_terms # <<>> THEN query \o <<" ">> \o Join(added_terms, <<" ">>)
       ELSE query

\* _enhance_query_for_multilingual_search with its handler (lines 524-526): an
\* exception inside the try gives the query back.
enhance_query_handled(query, language, raises) ==
    IF raises THEN query ELSE enhance_query_for_multilingual_search(query, language)

\* str.split()
RECURSIVE Split(_, _)
Split(s, cur) ==
    IF s = <<>> THEN (IF cur = <<>> THEN <<>> ELSE <<cur>>)
    ELSE IF IsSpace(Head(s))
         THEN (IF cur = <<>> THEN <<>> ELSE <<cur>>) \o Split(Tail(s), <<>>)
    ELSE Split(Tail(s), Append(cur, Head(s)))

\* cross_language_mapping (lines 645-679); 'acupuncture' also maps to the two-word
\* term that contains its first entry.
cross_language_mapping(term) ==
    CASE term = <<"dental">> -> << <<"he_shinayim">>, <<"he_shinei">> >>
      [] term = <<"teeth">> -> << <<"he_shinayim">>, <<"he_shinei">> >>
      [] term = <<"he_shinayim">> -> << <<"dental">>, <<"teeth">> >>
      [] term = <<"he_shinei">> -> << <<"dental">>, <<"teeth">> >>
      [] term = <<"acupuncture">> -> << <<"he_dikur">>, <<"he_dikur", " ", "he_sini">> >>
      [] term = <<"he_dikur">> -> << <<"acupuncture">> >>
      [] term = <<"phone">> -> << <<"he_telefon">> >>
      [] term = <<"he_telefon">> -> << <<"phone">> >>
      [] OTHER -> <<>>

\* _get_cross_language_terms
get_cross_language_terms(query_terms) ==
    Concat([i \in 1..Len(query_terms) |-> cross_language_mapping(query_terms[i])])

(***************************************************************************)
(* Searching                                                               *)
(***************************************************************************)
MinResultLen == 100

\* The value of an exception that leaves a function.
Raise == <<"!raise">>

NoResultsText(language) ==
    IF language = "he" THEN <<"NF", "none_he_tail">> ELSE <<"none_en">>

ErrorText(language) == IF language = "he" THEN <<"err_he">> ELSE <<"err_en">>

\* needle in hay, for the names of the HMOs.
Within(needle, hay) == needle \in TermsIn(hay)

\* The test of lines 550-552 and 607-609.
MatchesHmo(hmo_name, chunk) ==
    \/ Within(Lower(hmo_name), Lower(chunk.hmo))
    \/ Within(Lower(hmo_name), Lower(chunk.hmo_hebrew))
    \/ Within(Lower(hmo_name), Lower(chunk.chunk_type))

\* The filter test that lets every chunk through.
Passes_unfiltered(hmo_name, chunk) == TRUE

\* if hmo_name: the filter applies to a non-empty name only.
Passes(hmo_name, chunk) == hmo_name \in {None, ""} \/ MatchesHmo(hmo_name, chunk)

Dist(a, b) == (a.val - b.val) * (a.val - b.val)

\* The positions, nearest first: position p goes before the first position that
\* is farther away (the lower position stays first among equals).
RECURSIVE InsertByDist(_, _, _, _)
InsertByDist(order, p, vectors, query_vector) ==
    IF order = <<>> THEN <<p>>
    ELSE IF Dist(vectors[p], query_vector) < Dist(vectors[Head(order)], query_vector)
    THEN <<p>> \o order
    ELSE <<Head(order)>> \o InsertByDist(Tail(order), p, vectors, query_vector)

RECURSIVE ByDistance(_, _, _)
ByDistance(n, vectors, query_vector) ==
    IF n = 0 THEN <<>>
    ELSE InsertByDist(ByDistance(n - 1, vectors, query_vector), n, vectors, query_vector)

\* IndexFlatL2.search: the k nearest positions by ascending distance, filled up
\* with -1 (here 0) beyond ntotal.
FaissSearch(vectors, query_vector, k) ==
    LET order == ByDistance(Len(vectors), vectors, query_vector)
    IN [i \in 1..k |-> IF i <= Len(order) THEN order[i] ELSE 0]

\* self.chunks[idx] for the position FAISS returned; -1 is the last chunk.
ChunkAt(idx) == IF idx = 0 THEN chunks[Len(chunks)] ELSE chunks[idx]

\* The loop of lines 545-560 without its break.
RECURSIVE FilterChunks_no_break(_, _, _, _)
FilterChunks_no_break(indices, top_k, hmo_name, filtered_chunks) ==
    IF indices = <<>> THEN filtered_chunks
    ELSE IF Head(indices) <= Len(chunks) /\ Passes(hmo_name, ChunkAt(Head(indices)))
    THEN FilterChunks_no_break(Tail(indices), top_k, hmo_name,
                               Append(filtered_chunks, ChunkAt(Head(indices))))
    ELSE FilterChunks_no_break(Tail(indices), top_k, hmo_name, filtered_chunks)

\* The loop of lines 545-560 leaving at its first kept chunk.
RECURSIVE FilterChunks_first_hit(_, _, _, _)
FilterChunks_first_hit(indices, top_k, hmo_name, filtered_chunks) ==
    IF indices = <<>> THEN filtered_chunks
    ELSE IF Head(indices) <= Len(chunks) /\ Passes(hmo_name, ChunkAt(Head(indices)))
    THEN Append(filtered_chunks, ChunkAt(Head(indices)))
    ELSE FilterChunks_first_hit(Tail(indices), top_k, hmo_name, filtered_chunks)

\* The loop of lines 545-560.
RECURSIVE FilterChunks(_, _, _, _)
FilterChunks(indices, top_k, hmo_name, filtered_chunks) ==
    IF indices = <<>> THEN filtered_chunks
    ELSE IF Head(indices) <= Len(chunks)
    THEN LET chunk == ChunkAt(Head(indices))
             kept == IF Passes(hmo_name, chunk) THEN Append(filtered_chunks, chunk)
                     ELSE filtered_chunks
         IN IF Len(kept) >= top_k THEN kept
            ELSE FilterChunks(Tail(indices), top_k, hmo_name, kept)
    ELSE FilterChunks(Tail(indices), top_k, hmo_name, filtered_chunks)

\* "SOURCE {i+1}: [{service} - {chunk_type}]\n{content}" (line 565)
VectorBlock(i, chunk) ==
    <<"SOURCE", " ", ToString(i), ": [", chunk.service, " - ", chunk.chunk_type, "]",
      "\n">> \o chunk.content

\* "SOURCE: [{service} - {chunk_type}]\n{content}" (line 616)
KeywordBlock(chunk) ==
    <<"SOURCE", ": [", chunk.service, " - ", chunk.chunk_type, "]", "\n">>
        \o chunk.content

\* The query vector of lines 532-535.
QueryEmbedding(query, provider_ok) ==
    IF azure_client # None THEN get_azure_embedding(query, provider_ok)
    ELSE create_simple_embedding(query)

\* self.faiss_index.search raises when the index is gone or the query vector has
\* another dimension than the index.
FaissRaises(query_vector) ==
    \/ ~faiss_index.built
    \/ faiss_index.vectors[1].dim # query_vector.dim

\* A fetch of top_k neighbours only.
FetchNeighbours_top_k_only(query, top_k, provider_ok) ==
    FaissSearch(faiss_index.vectors, QueryEmbedding(query, provider_ok),
                Min(top_k, Len(chunks)))

\* The positions fetched at lines 540-541.
FetchNeighbours(query, top_k, provider_ok) ==
    FaissSearch(faiss_index.vectors, QueryEmbedding(query, provider_ok),
                Min(top_k * 3, Len(chunks)))

\* The chunks that survive the loop of lines 545-560.
VectorHits(query, top_k, hmo_name, provider_ok) ==
    FilterChunks(FetchNeighbours(query, top_k, provider_ok), top_k, hmo_name, <<>>)

\* The try body of _vector_search (lines 531-579).  no_results is assigned in the
\* branch of a non-empty result only: with no result its read raises.
vector_search_body(query, top_k, language, hmo_name, provider_ok) ==
    LET filtered_chunks == VectorHits(query, top_k, hmo_name, provider_ok)
        results == [i \in 1..Len(filtered_chunks) |-> VectorBlock(i, filtered_chunks[i])]
        header == IF language = "he" THEN <<"hdr_vec_he">> ELSE <<"hdr_vec_en">>
        no_results_is_bound == results # <<>>
    IN IF FaissRaises(QueryEmbedding(query, provider_ok)) THEN Raise
       ELSE IF results # <<>> THEN header \o Join(results, <<"\n", "\n">>)
       ELSE IF no_results_is_bound THEN NoResultsText(language)
       ELSE Raise

\* _vector_search: lines 581-586 turn every exception into the error string.
vector_search(query, top_k, language, hmo_name, provider_ok) ==
    LET body == vector_search_body(query, top_k, language, hmo_name, provider_ok)
    IN IF body = Raise THEN ErrorText(language) ELSE body

\* The loop of lines 604-620 without its break.
RECURSIVE KeywordMatches_no_break(_, _, _, _, _)
KeywordMatches_no_break(chs, all_search_terms, top_k, hmo_name, results) ==
    IF chs = <<>> THEN results
    ELSE LET chunk == Head(chs)
             hit == /\ Passes(hmo_name, chunk)
                    /\ \E t \in 1..Len(all_search_terms) :
                           PhraseIn(all_search_terms[t], LowerText(chunk.content))
         IN KeywordMatches_no_break(Tail(chs), all_search_terms, top_k, hmo_name,
                                    IF hit THEN Append(results, chunk) ELSE results)

\* The chunks the loop of lines 604-620 collects.
RECURSIVE KeywordMatches(_, _, _, _, _)
KeywordMatches(chs, all_search_terms, top_k, hmo_name, results) ==
    IF chs = <<>> THEN results
    ELSE LET chunk == Head(chs)
             chunk_content_lower == LowerText(chunk.content)
             hit == /\ Passes(hmo_name, chunk)
                    /\ \E t \in 1..Len(all_search_terms) :
                           PhraseIn(all_search_terms[t], chunk_content_lower)
             found == IF hit THEN Append(results, chunk) ELSE results
         IN IF hit /\ Len(found) >= top_k THEN found
            ELSE KeywordMatches(Tail(chs), all_search_terms, top_k, hmo_name, found)

\* all_search_terms of line 599
SearchTerms(query) ==
    LET query_terms == Split(LowerText(query), <<>>)
    IN query_terms \o get_cross_language_terms(query_terms)

KeywordHits(query, top_k, hmo_name) ==
    KeywordMatches(chunks, SearchTerms(query), top_k, hmo_name, <<>>)

\* _keyword_search
keyword_search(query, top_k, language, hmo_name) ==
    LET found == KeywordHits(query, top_k, hmo_name)
        results == [i \in 1..Len(found) |-> KeywordBlock(found[i])]
        header == IF language = "he" THEN <<"hdr_kw_he">> ELSE <<"hdr_kw_en">>
    IN IF results # <<>> THEN header \o Join(results, <<"\n", "\n">>)
       ELSE NoResultsText(language)

\* "<lo nimtza meida>" in text (lines 436, 439)
HasNotFoundPhrase(text) == Has(text, "NF")

\* The test of line 436.
KeywordTriggered(vector_results) ==
    HasNotFoundPhrase(vector_results) \/ StrLen(vector_results) < MinResultLen

\* The try body of search_services (lines 428-445).
search_services_body(query, hmo_name, top_k, language, provider_ok) ==
    IF faiss_index.built /\ embeddings # <<>>
    THEN LET enhanced_query == enhance_query_for_multilingual_search(query, language)
             vector_results == vector_search(enhanced_query, top_k, language, hmo_name,
                                             provider_ok)
             keyword_results == keyword_search(enhanced_query, top_k, language, hmo_name)
         IN IF KeywordTriggered(vector_results)
            THEN IF keyword_results # <<>> /\ ~HasNotFoundPhrase(keyword_results)
                 THEN keyword_results
                 ELSE vector_results
            ELSE vector_results
    ELSE <<"not_ready">>

\* search_services with no exception handler between the index and the caller.
search_services_unguarded(query, hmo_name, top_k, language, provider_ok) ==
    IF faiss_index.built /\ embeddings # <<>>
    THEN LET enhanced_query == enhance_query_for_multilingual_search(query, language)
             vector_results == vector_search_body(enhanced_query, top_k, language, hmo_name,
                                                  provider_ok)
             keyword_results == keyword_search(enhanced_query, top_k, language, hmo_name)
         IN IF vector_results = Raise THEN Raise
            ELSE IF KeywordTriggered(vector_results)
                    /\ keyword_results # <<>> /\ ~HasNotFoundPhrase(keyword_results)
            THEN keyword_results
            ELSE vector_results
    ELSE <<"not_ready">>

\* search_services: lines 446-448 turn every exception into the error string.
search_services(query, hmo_name, top_k, language, provider_ok) ==
    LET body == search_services_body(query, hmo_name, top_k, language, provider_ok)
    IN IF body = Raise THEN <<"err_he">> ELSE body

(***************************************************************************)
(* Calls of search_services                                                *)
(***************************************************************************)
QueryWords == {"dental", "he_shinayim", "he_dikur", "zzz"}

\* The query strings: one word.
Queries == { <<w>> : w \in QueryWords }

HmoNames == {None, "Maccabi", "he_meuhedet", "clalit"}

\* top_k of a call that leaves it out (line 425).
default_top_k == 3

\* The values of top_k (a count of at least 1): one, the default, and one above
\* the size of a one-file corpus.
TopKs == {1, default_top_k, MaxTopK}

Languages == {"he", "en"}

\* The provider's answer to the query-time call: it answers or fails when there
\* is a client, and is not asked when there is none.
ProviderAllows(provider_ok) == provider_ok => azure_client # None

Call(query, hmo_name, top_k, language, provider_ok) ==
    [called |-> TRUE, query |-> query, hmo_name |-> hmo_name, top_k |-> top_k,
     language |-> language, provider_ok |-> provider_ok,
     text |-> search_services(query, hmo_name, top_k, language, provider_ok)]

\* A call of search_services.  The call writes nothing of the engine, so the
\* states a later call with other arguments reaches are those a first call reaches.
Search ==
    /\ pc = "done"
    /\ ~last_call.called
    /\ \E query \in Queries, hmo_name \in HmoNames, top_k \in TopKs,
          language \in Languages, provider_ok \in BOOLEAN :
          /\ ProviderAllows(provider_ok)
          /\ last_call' = Call(query, hmo_name, top_k, language, provider_ok)
    /\ UNCHANGED <<docs, azure_client, provider, pc, next_doc, chunks, embeddings,
                   batch_embeddings, next_chunk, cleared, faiss_index>>

\* The same call once more.
SearchAgain ==
    /\ pc = "done"
    /\ last_call.called
    /\ \E provider_ok \in BOOLEAN :
          /\ ProviderAllows(provider_ok)
          /\ last_call' = Call(last_call.query, last_call.hmo_name, last_call.top_k,
                               last_call.language, provider_ok)
    /\ UNCHANGED <<docs, azure_client, provider, pc, next_doc, chunks, embeddings,
                   batch_embeddings, next_chunk, cleared, faiss_index>>

(***************************************************************************)
(* get_service_info                                                        *)
(***************************************************************************)
\* hmo_order.get(x['chunk_type'], 999) of lines 705-706
hmo_order(chunk_type) ==
    CASE chunk_type = "maccabi" -> 1
      [] chunk_type = "meuhedet" -> 2
      [] chunk_type = "clalit" -> 3
      [] OTHER -> 999

\* list.sort by hmo_order: a stable sort over four keys.
SortByHmo(chs) ==
    SelectSeq(chs, LAMBDA c : hmo_order(c.chunk_type) = 1)
        \o SelectSeq(chs, LAMBDA c : hmo_order(c.chunk_type) = 2)
        \o SelectSeq(chs, LAMBDA c : hmo_order(c.chunk_type) = 3)
        \o SelectSeq(chs, LAMBDA c : hmo_order(c.chunk_type) = 999)

\* "[{hmo_display}] {content}" (line 712)
InfoBlock(chunk) == <<"[", chunk.hmo_hebrew, "] ">> \o chunk.content

\* get_service_info without the test of the service name.
get_service_info_any_service(service_name, hmo_name) ==
    LET service_chunks == IF hmo_name \notin {None, ""}
                          THEN SelectSeq(chunks, LAMBDA c : MatchesHmo(hmo_name, c))
                          ELSE chunks
        sorted == SortByHmo(service_chunks)
        formatted_content == [i \in 1..Len(sorted) |-> InfoBlock(sorted[i])]
    IN IF service_chunks # <<>> THEN Join(formatted_content, <<"\n", "\n">>)
       ELSE IF hmo_name \notin {None, ""}
       THEN <<"NF", "al", service_name, "for", hmo_name>>
       ELSE <<"sherut", service_name, "lo_nimtza">>

\* get_service_info
get_service_info(service_name, hmo_name) ==
    LET of_service == SelectSeq(chunks, LAMBDA c : c.service = service_name)
        service_chunks == IF hmo_name \notin {None, ""}
                          THEN SelectSeq(of_service, LAMBDA c : MatchesHmo(hmo_name, c))
                          ELSE of_service
        sorted == SortByHmo(service_chunks)
        formatted_content == [i \in 1..Len(sorted) |-> InfoBlock(sorted[i])]
    IN IF service_chunks # <<>> THEN Join(formatted_content, <<"\n", "\n">>)
       ELSE IF hmo_name \notin {None, ""}
       THEN <<"NF", "al", service_name, "for", hmo_name>>
       ELSE <<"sherut", service_name, "lo_nimtza">>

\* The service names asked for: the candidate files' stems and an unknown one.
ServiceNames == { Services[i] : i \in 1..Len(Services) } \cup {"zzz"}

\* A call of get_service_info on the constructed engine.
GetServiceInfo ==
    /\ pc = "done"
    /\ ~last_call.called
    /\ \E service_name \in ServiceNames, hmo_name \in HmoNames :
           last_call' = [called |-> TRUE, service_name |-> service_name,
                         hmo_name |-> hmo_name,
                         text |-> get_service_info(service_name, hmo_name)]
    /\ UNCHANGED <<docs, azure_client, provider, pc, next_doc, chunks, embeddings,
                   batch_embeddings, next_chunk, cleared, faiss_index>>

InfoNext ==
    \/ LoadDoc
    \/ LoadDone
    \/ CreateSimpleEmbeddings
    \/ EmbedChunk
    \/ ExtendEmbeddings
    \/ FinishEmbeddings
    \/ CreateEmbeddingsError
    \/ BuildIndex
    \/ GetServiceInfo

InfoSpec == Init /\ [][InfoNext]_vars

(***************************************************************************)
(* The chunk builder on every short document                               *)
(***************************************************************************)
TextAlphabet ==
    {"he_maccabi", "he_meuhedet", "he_clalit", " ", "\n", "<p>", "<script>", "</script>",
     "LONG", "url_hmo", "tel"}

\* The texts of at most n tokens.
RECURSIVE TextsUpTo(_)
TextsUpTo(n) ==
    IF n = 0 THEN { <<>> }
    ELSE LET shorter == TextsUpTo(n - 1)
         IN shorter \cup { Append(t, c) : t \in shorter, c \in TextAlphabet }

\* A corpus of one file: any short text, read or not, chunked with or without an
\* internal error of _extract_hmo_chunk.
ChunkInit ==
    /\ \E raw \in TextsUpTo(MaxTextLen), fault \in {"none", "read", "maccabi", "clalit"} :
           docs = << [service |-> "dental", raw |-> raw, fault |-> fault] >>
    /\ azure_client = None
    /\ provider = "up"
    /\ pc = "load"
    /\ next_doc = 1
    /\ chunks = <<>>
    /\ embeddings = <<>>
    /\ batch_embeddings = <<>>
    /\ next_chunk = 1
    /\ cleared = FALSE
    /\ faiss_index = NoIndex
    /\ last_call = NoCall

ChunkNext ==
    \/ LoadDoc
    \/ LoadDone

ChunkSpec == ChunkInit /\ [][ChunkNext]_vars

(***************************************************************************)
(* The query enhancement on every short query                              *)
(***************************************************************************)
QueryAlphabet == {"Dental", "teeth", "he_shinayim", "he_dikur", "he_sini", " ", "zzz"}

\* The queries of at most n tokens.
RECURSIVE QueriesUpTo(_)
QueriesUpTo(n) ==
    IF n = 0 THEN { <<>> }
    ELSE LET shorter == QueriesUpTo(n - 1)
         IN shorter \cup { Append(q, c) : q \in shorter, c \in QueryAlphabet }

\* An engine with nothing loaded and the arguments of one enhancement.
EnhanceInit ==
    /\ docs = <<>>
    /\ azure_client = None
    /\ provider = "up"
    /\ pc = "done"
    /\ next_doc = 1
    /\ chunks = <<>>
    /\ embeddings = <<>>
    /\ batch_embeddings = <<>>
    /\ next_chunk = 1
    /\ cleared = FALSE
    /\ faiss_index = NoIndex
    /\ \E query \in QueriesUpTo(MaxTextLen), language \in Languages :
           last_call = [called |-> FALSE, query |-> query, language |-> language,
                        raises |-> FALSE, text |-> <<>>]

\* One call of _enhance_query_for_multilingual_search.
Enhance ==
    /\ ~last_call.called
    /\ \E raises \in BOOLEAN :
           last_call' = [last_call EXCEPT
                            !.called = TRUE, !.raises = raises,
                            !.text = enhance_query_handled(last_call.query,
                                                           last_call.language, raises)]
    /\ UNCHANGED <<docs, azure_client, provider, pc, next_doc, chunks, embeddings,
                   batch_embeddings, next_chunk, cleared, faiss_index>>

EnhanceNext == Enhance

EnhanceSpec == EnhanceInit /\ [][EnhanceNext]_vars

(***************************************************************************)
(* _find_hmo_specific_content on every short text                          *)
(***************************************************************************)
\* An engine with nothing loaded and the arguments of one span search.
SpanInit ==
    /\ docs = <<>>
    /\ azure_client = None
    /\ provider = "up"
    /\ pc = "done"
    /\ next_doc = 1
    /\ chunks = <<>>
    /\ embeddings = <<>>
    /\ batch_embeddings = <<>>
    /\ next_chunk = 1
    /\ cleared = FALSE
    /\ faiss_index = NoIndex
    /\ \E content \in TextsUpTo(MaxTextLen), h \in 1..Len(HMOS) :
           last_call = [called |-> FALSE, content |-> content,
                        hmo_hebrew |-> HebrewOf(HMOS[h]), text |-> <<>>]

\* One call of _find_hmo_specific_content.
FindSpan ==
    /\ ~last_call.called
    /\ last_call' = [last_call EXCEPT
                        !.called = TRUE,
                        !.text = find_hmo_specific_content(last_call.content,
                                                           last_call.hmo_hebrew)]
    /\ UNCHANGED <<docs, azure_client, provider, pc, next_doc, chunks, embeddings,
                   batch_embeddings, next_chunk, cleared, faiss_index>>

SpanNext == FindSpan

SpanSpec == SpanInit /\ [][SpanNext]_vars

(***************************************************************************)
(* search_services step by step, with clear_embeddings running beside it   *)
(***************************************************************************)
\* _vector_search on the index object it got hold of at line 541: None or an
\* index of another dimension raises, and so does the read of no_results when
\* nothing survives the filter; lines 581-586 turn that into the error string.
vector_search_on(index, query, top_k, language, hmo_name, provider_ok) ==
    LET query_vector == QueryEmbedding(query, provider_ok)
        raises == ~index.built \/ index.vectors[1].dim # query_vector.dim
        filtered_chunks ==
            FilterChunks(FaissSearch(index.vectors, query_vector,
                                     Min(top_k * 3, Len(chunks))),
                         top_k, hmo_name, <<>>)
        results == [i \in 1..Len(filtered_chunks) |-> VectorBlock(i, filtered_chunks[i])]
        header == IF language = "he" THEN <<"hdr_vec_he">> ELSE <<"hdr_vec_en">>
    IN IF raises THEN ErrorText(language)
       ELSE IF results # <<>> THEN header \o Join(results, <<"\n", "\n">>)
       ELSE ErrorText(language)

\* Lines 430-442 with the exception of a missing index reaching the caller.
search_after_check_unguarded(index, query, hmo_name, top_k, language, provider_ok) ==
    IF ~index.built THEN Raise
    ELSE vector_search_on(index, query, top_k, language, hmo_name, provider_ok)

\* Lines 430-442: what search_services returns once its readiness test passed.
search_after_check(index, query, hmo_name, top_k, language, provider_ok) ==
    LET enhanced_query == enhance_query_for_multilingual_search(query, language)
        vector_results == vector_search_on(index, enhanced_query, top_k, language,
                                           hmo_name, provider_ok)
        keyword_results == keyword_search(enhanced_query, top_k, language, hmo_name)
    IN IF KeywordTriggered(vector_results)
          /\ keyword_results # <<>> /\ ~HasNotFoundPhrase(keyword_results)
       THEN keyword_results
       ELSE vector_results

\* Line 428: the readiness test of a call.
RaceCheck ==
    /\ pc = "done"
    /\ ~last_call.called
    /\ last_call.top_k = 0
    /\ \E query \in Queries, hmo_name \in HmoNames, top_k \in TopKs,
          language \in Languages, provider_ok \in BOOLEAN :
          /\ ProviderAllows(provider_ok)
          /\ last_call' =
                 IF faiss_index.built /\ embeddings # <<>>
                 THEN [called |-> FALSE, stage |-> "checked", query |-> query,
                       hmo_name |-> hmo_name, top_k |-> top_k, language |-> language,
                       provider_ok |-> provider_ok, index |-> NoIndex, text |-> <<>>]
                 ELSE [called |-> TRUE, stage |-> "returned", query |-> query,
                       hmo_name |-> hmo_name, top_k |-> top_k, language |-> language,
                       provider_ok |-> provider_ok, index |-> NoIndex,
                       text |-> <<"not_ready">>]
    /\ UNCHANGED <<docs, azure_client, provider, pc, next_doc, chunks, embeddings,
                   batch_embeddings, next_chunk, cleared, faiss_index>>

\* Line 541: the call reads self.faiss_index; the object it gets stays alive
\* and unchanged for the search, whatever happens to the attribute.
RaceBind ==
    /\ ~last_call.called
    /\ last_call.top_k > 0
    /\ last_call.stage = "checked"
    /\ last_call' = [last_call EXCEPT !.stage = "bound", !.index = faiss_index]
    /\ UNCHANGED <<docs, azure_client, provider, pc, next_doc, chunks, embeddings,
                   batch_embeddings, next_chunk, cleared, faiss_index>>

\* Lines 541-579 and 436-442: the search on that object, the keyword path, the
\* return.
RaceReturn ==
    /\ ~last_call.called
    /\ last_call.top_k > 0
    /\ last_call.stage = "bound"
    /\ last_call' =
           [last_call EXCEPT
               !.called = TRUE, !.stage = "returned",
               !.text = search_after_check(last_call.index, last_call.query,
                                           last_call.hmo_name, last_call.top_k,
                                           last_call.language, last_call.provider_ok)]
    /\ UNCHANGED <<docs, azure_client, provider, pc, next_doc, chunks, embeddings,
                   batch_embeddings, next_chunk, cleared, faiss_index>>

\* clear_embeddings on another thread, at any moment of the call: line 769
\* empties the list of embeddings,
RaceClearEmbeddings ==
    /\ pc = "done"
    /\ ~cleared
    /\ embeddings' = <<>>
    /\ cleared' = TRUE
    /\ UNCHANGED <<docs, azure_client, provider, pc, next_doc, chunks, batch_embeddings,
                   next_chunk, faiss_index, last_call>>

\* and line 770 drops the index.
RaceClearIndex ==
    /\ cleared
    /\ faiss_index.built
    /\ faiss_index' = NoIndex
    /\ UNCHANGED <<docs, azure_client, provider, pc, next_doc, chunks, embeddings,
                   batch_embeddings, next_chunk, cleared, last_call>>

RaceNext ==
    \/ LoadDoc
    \/ LoadDone
    \/ CreateSimpleEmbeddings
    \/ EmbedChunk
    \/ ExtendEmbeddings
    \/ FinishEmbeddings
    \/ CreateEmbeddingsError
    \/ BuildIndex
    \/ RaceCheck
    \/ RaceBind
    \/ RaceReturn
    \/ RaceClearEmbeddings
    \/ RaceClearIndex

RaceSpec == Init /\ [][RaceNext]_vars

(***************************************************************************)
(* The chat endpoint (healthcare_chatbot_src/api.py) and the session of    *)
(* the frontend that calls it                                              *)
(***************************************************************************)
\* The 9 digits of an ID number and of an HMO card number.
IdDigits == 9

\* The oldest age accepted.
MaxAge == 120

\* What extract_user_info_from_conversation can return: None (present is
\* FALSE), or the fields that validate_and_normalize_extracted_data kept.  A
\* field it dropped is "" or 0; a number of 9 digits is given by its length.
ExtractedInfos ==
    {[present |-> FALSE, name |-> "", id_number |-> 0, gender |-> "", age |-> 0,
      hmo_name |-> "", hmo_card_number |-> 0, insurance_tier |-> ""]}
    \cup
    { e \in [present : {TRUE}, name : {"", "dana"}, id_number : {0, IdDigits},
              gender : {"female"}, age : {0, 1, MaxAge},
              hmo_name : {"", "Maccabi", "he_clalit"},
              hmo_card_number : {0, IdDigits}, insurance_tier : {"", "Gold"}] :
        \/ e.name # "" \/ e.id_number # 0 \/ e.age # 0 \/ e.hmo_name # ""
        \/ e.hmo_card_number # 0 \/ e.insurance_tier # "" \/ e.gender # "" }

is_user_info_complete(user_info) ==
    LET missing_fields ==
            \/ user_info.name = "" \/ user_info.id_number = 0 \/ user_info.gender = ""
            \/ user_info.age = 0 \/ user_info.hmo_name = ""
            \/ user_info.hmo_card_number = 0 \/ user_info.insurance_tier = ""
    IN /\ ~missing_fields
       /\ user_info.id_number = IdDigits
       /\ 0 <= user_info.age /\ user_info.age <= MaxAge
       /\ user_info.hmo_card_number = IdDigits
       /\ Lower(user_info.hmo_name) \in {"he_maccabi", "he_meuhedet", "he_clalit",
                                          "maccabi", "meuhedet", "clalit"}
       /\ Lower(user_info.insurance_tier) \in {"he_zahav", "he_kesef", "he_arad",
                                                "gold", "silver", "bronze"}

\* The chat endpoint with its info_collection branch falling through to the
\* phase determination of lines 372-397 instead of returning.
chat_without_early_return(request, extracted_info) ==
    LET user_info_complete ==
            IF request.user_info.present THEN is_user_info_complete(request.user_info)
            ELSE /\ request.phase = "info_collection"
                 /\ extracted_info.present
                 /\ is_user_info_complete(extracted_info)
    IN [phase |-> IF user_info_complete /\ request.phase = "info_collection"
                  THEN "qa" ELSE request.phase,
        user_info |-> request.user_info,
        user_info_complete |-> user_info_complete]

\* chat: the phase, user_info and user_info_complete of the ChatResponse.
chat(request, extracted_info) ==
    LET no_user_info ==
            [present |-> FALSE, name |-> "", id_number |-> 0, gender |-> "", age |-> 0,
             hmo_name |-> "", hmo_card_number |-> 0, insurance_tier |-> ""]
        complete == extracted_info.present /\ is_user_info_complete(extracted_info)
        confirmation_indicators ==
            IF request.language = "he"
            THEN {"ken", "nachon", "beseder", "okay_he", "meule", "tov", "emet", "amiti"}
            ELSE {"yes", "correct", "right", "okay", "ok", "good", "true", "accurate",
                  "perfect"}
        is_confirmed ==
            \E indicator \in confirmation_indicators :
                Has(LowerText(request.message), indicator)
        valid_hmos == {"he_maccabi", "he_meuhedet", "he_clalit",
                       "Maccabi", "Meuhedet", "Clalit"}
        valid_tiers == {"he_zahav", "he_kesef", "he_arad", "Gold", "Silver", "Bronze"}
        cleaned_info ==
            [extracted_info EXCEPT
                !.hmo_name = IF @ \in valid_hmos THEN @ ELSE "he_maccabi",
                !.insurance_tier = IF @ \in valid_tiers THEN @ ELSE "he_zahav"]
        \* the validators of models.UserInfo
        user_info_created ==
            /\ cleaned_info.id_number = IdDigits
            /\ cleaned_info.hmo_card_number = IdDigits
            /\ 0 <= cleaned_info.age /\ cleaned_info.age <= MaxAge
        answer(phase, user_info, user_info_complete) ==
            [phase |-> phase, user_info |-> user_info,
             user_info_complete |-> user_info_complete]
        \* lines 372-397
        user_info_complete ==
            IF request.user_info.present THEN is_user_info_complete(request.user_info)
            ELSE /\ request.phase = "info_collection"
                 /\ extracted_info.present
                 /\ is_user_info_complete(extracted_info)
    IN IF request.phase = "info_collection"
       THEN IF complete THEN answer("validation", no_user_info, FALSE)
            ELSE answer("info_collection", no_user_info, FALSE)
       ELSE IF request.phase = "validation"
       THEN IF ~complete THEN answer("info_collection", no_user_info, FALSE)
            ELSE IF is_confirmed
            THEN IF user_info_created THEN answer("qa", cleaned_info, TRUE)
                 ELSE answer("validation", no_user_info, FALSE)
            ELSE answer("info_collection", no_user_info, FALSE)
       ELSE answer(IF user_info_complete /\ request.phase = "info_collection"
                   THEN "qa" ELSE request.phase,
                   no_user_info, user_info_complete)

\* The session of the frontend before its first message.
ChatInit ==
    /\ docs = <<>>
    /\ azure_client = None
    /\ provider = "up"
    /\ pc = "done"
    /\ next_doc = 1
    /\ chunks = <<>>
    /\ embeddings = <<>>
    /\ batch_embeddings = <<>>
    /\ next_chunk = 1
    /\ cleared = FALSE
    /\ faiss_index = NoIndex
    /\ \E e \in ExtractedInfos :
          /\ ~e.present
          /\ last_call = [called |-> FALSE, current_phase |-> "info_collection",
                          user_info |-> e,
                          request |-> [message |-> <<>>, user_info |-> e,
                                       phase |-> "info_collection", language |-> "he"],
                          extracted_info |-> e,
                          response |-> [phase |-> "info_collection", user_info |-> e,
                                        user_info_complete |-> FALSE]]

\* One message of the user: the frontend posts it with the phase and the
\* user_info of its session (frontend.py, send_chat_message), and takes the phase
\* and the user_info of the answer.  The extraction reads the conversation in
\* the first two phases only.
Chat ==
    /\ \E message \in {<<"yes">>, <<"ken">>, <<"tikun">>, <<"lo", "nachon">>},
          language \in Languages, extracted_info \in ExtractedInfos :
          LET request == [message |-> message, user_info |-> last_call.user_info,
                          phase |-> last_call.current_phase, language |-> language]
              response == chat(request, extracted_info)
          IN /\ (request.phase = "qa" => ~extracted_info.present)
             /\ last_call' =
                    [called |-> TRUE, current_phase |-> response.phase,
                     user_info |-> IF response.user_info.present
                                   THEN response.user_info ELSE last_call.user_info,
                     request |-> request, extracted_info |-> extracted_info,
                     response |-> response]
    /\ UNCHANGED <<docs, azure_client, provider, pc, next_doc, chunks, embeddings,
                   batch_embeddings, next_chunk, cleared, faiss_index>>

ChatNext == Chat

ChatSpec == ChatInit /\ [][ChatNext]_vars

Next ==
    \/ LoadDoc
    \/ LoadDone
    \/ CreateSimpleEmbeddings
    \/ EmbedChunk
    \/ ExtendEmbeddings
    \/ FinishEmbeddings
    \/ CreateEmbeddingsError
    \/ BuildIndex
    \/ Search
    \/ SearchAgain
    \/ ClearEmbeddings

Spec == Init /\ [][Next]_vars

(***************************************************************************)
(* Reading a returned string                                               *)
(***************************************************************************)
\* The positions where a source block starts (lines 565 and 616).
BlockStarts(text) == { i \in 1..Len(text) : text[i] = "SOURCE" }

\* The service and chunk_type between the brackets of the block that starts at i.
BlockTag(text, i) ==
    LET j == CHOOSE k \in i..Len(text) :
                 text[k] = ": [" /\ \A m \in i..(k - 1) : text[m] # ": ["
    IN [service |-> text[j + 1], chunk_type |-> text[j + 3]]

\* The blocks of a returned string, in order.
RECURSIVE BlockTagsFrom(_, _)
BlockTagsFrom(text, i) ==
    IF i > Len(text) THEN <<>>
    ELSE IF text[i] = "SOURCE" THEN <<BlockTag(text, i)>> \o BlockTagsFrom(text, i + 1)
    ELSE BlockTagsFrom(text, i + 1)

BlockTags(text) == BlockTagsFrom(text, 1)

\* The HMO id a filter value names: an id in any case, or a Hebrew label.
HmoOf(hmo_name) ==
    IF hmo_name \in HebrewLabels
    THEN CHOOSE h \in {"maccabi", "meuhedet", "clalit"} : HebrewOf(h) = hmo_name
    ELSE Lower(hmo_name)

\* A readiness test that looks at the chunk list only.
is_embeddings_ready_chunks_only == Len(chunks) > 0

\* is_embeddings_ready
is_embeddings_ready ==
    faiss_index.built /\ Len(embeddings) = Len(chunks) /\ Len(embeddings) > 0

\* is_loaded
is_loaded == Len(chunks) > 0

\* get_all_services: the services of the chunk list (a list in no fixed order).
get_all_services == { chunks[i].service : i \in 1..Len(chunks) }

\* get_service_count
get_service_count == Cardinality(get_all_services)

\* get_stats: the counters and flags of the returned dictionary.
get_stats ==
    [total_chunks |-> Len(chunks),
     total_embeddings |-> Len(embeddings),
     has_faiss_index |-> faiss_index.built,
     embeddings_ready |-> is_embeddings_ready]

\* The query the two search paths of the recorded call receive (line 430).
EnhancedQuery == enhance_query_for_multilingual_search(last_call.query, last_call.language)

\* The recorded call's vector path: it ran through the filter loop, and what survived.
VectorRan ==
    /\ faiss_index.built /\ embeddings # <<>>
    /\ ~FaissRaises(QueryEmbedding(EnhancedQuery, last_call.provider_ok))

CallVectorHits ==
    VectorHits(EnhancedQuery, last_call.top_k, last_call.hmo_name, last_call.provider_ok)

\* The recorded call's keyword path: the chunks it collects.
CallKeywordHits == KeywordHits(EnhancedQuery, last_call.top_k, last_call.hmo_name)

(***************************************************************************)
(* Properties                                                              *)
(***************************************************************************)
\* C1: after construction over N documents the chunk list holds exactly 3*N
\* chunks, three per document, also when reading a document fails.
C1_ThreeChunksPerDocument == pc # "load" => Len(chunks) = 3 * Len(docs)

\* C2: every chunk of the chunk list has content whose stripped length is > 0,
\* also for a document that never mentions the chunk's HMO and holds no URL or
\* phone pattern, and when _extract_hmo_chunk hits an internal error.
C2_ContentNotBlank ==
    \A i \in 1..Len(chunks) : StrLen(Strip(chunks[i].content)) > 0

\* A document without the label of meuhedet, URL or phone has been chunked, and
\* the extraction of the maccabi chunk has hit an internal error.
C2_Witness ==
    /\ Len(chunks) = 3
    /\ docs[1].fault = "maccabi"
    /\ chunks[1].content = <<"exc_pre", "dental", "for", "he_maccabi">>
    /\ ~Has(docs[1].raw, "he_meuhedet")
    /\ ~\E i \in 1..Len(docs[1].raw) : docs[1].raw[i] \in {"url_hmo", "tel"}
    /\ chunks[2].content = <<"gen_general", "he_meuhedet">>

\* C3: from the end of construction until clear_embeddings, the embeddings list
\* holds one vector per chunk, on every build path.
C3_EmbeddingsParity ==
    (pc = "done" /\ ~cleared) => Len(embeddings) = Len(chunks)

\* C4: with a filter X, every source block of the returned string belongs to a
\* chunk of the HMO that X names, on the vector path and the keyword path.
C4_FilterRespected ==
    (last_call.called /\ last_call.hmo_name # None) =>
        \A i \in BlockStarts(last_call.text) :
            /\ BlockTag(last_call.text, i).chunk_type = HmoOf(last_call.hmo_name)
            /\ \E c \in 1..Len(chunks) :
                   /\ chunks[c].service = BlockTag(last_call.text, i).service
                   /\ chunks[c].chunk_type = BlockTag(last_call.text, i).chunk_type
                   /\ chunks[c].hmo = HmoOf(last_call.hmo_name)

\* A filtered call on a corpus of several documents has returned two blocks.
C4_Witness ==
    /\ last_call.called
    /\ last_call.hmo_name = "he_meuhedet"
    /\ Len(chunks) >= 6
    /\ Cardinality(BlockStarts(last_call.text)) >= 2

\* The recorded call has a block of the chunk_type hmo.
HasBlockOf(hmo) ==
    \E i \in BlockStarts(last_call.text) : BlockTag(last_call.text, i).chunk_type = hmo

\* The chunks the filter of the recorded call lets through.
FilterLetsThrough(c) ==
    last_call.hmo_name = None \/ chunks[c].hmo = HmoOf(last_call.hmo_name)

\* term in chunk_content_lower, for chunk c.
ChunkHasTerm(c, term) == PhraseIn(term, LowerText(chunks[c].content))

\* The whitespace tokens of the enhanced query, lowercased.
QueryTokens == Split(LowerText(EnhancedQuery), <<>>)

\* The filtered chunks that contain a whitespace token of the enhanced query.
TokenChunks ==
    { c \in 1..Len(chunks) :
        FilterLetsThrough(c) /\ \E t \in 1..Len(QueryTokens) : ChunkHasTerm(c, QueryTokens[t]) }

\* The chunk a tag names.
ChunkOfTag(tag) ==
    CHOOSE c \in 1..Len(chunks) :
        chunks[c].service = tag.service /\ chunks[c].chunk_type = tag.chunk_type

\* The recorded call is a filtered top_k = 1 search for a tracked HMO id on a
\* ready knowledge base that holds three chunks for every file, none of them
\* with the not-found phrase in its content.
FilteredTopOne ==
    /\ last_call.called
    /\ is_embeddings_ready
    /\ Len(chunks) = 3 * Len(docs)
    /\ \A c \in 1..Len(chunks) : ~HasNotFoundPhrase(chunks[c].content)
    /\ last_call.top_k = 1
    /\ last_call.hmo_name \in {"maccabi", "meuhedet", "clalit"}

\* C5: a filtered top_k = 1 search for a tracked HMO on a ready knowledge base
\* returns a block of that HMO, whatever the query.
C5_AlwaysBlockOfHmo == (FilteredTopOne /\ VectorRan) => HasBlockOf(last_call.hmo_name)

\* C6: search_services returns a string and never raises, in every engine state
\* and for every outcome of the query-time embedding call.
C6_NeverRaises ==
    last_call.called => (last_call.text # Raise /\ StrLen(last_call.text) > 0)

\* A call on a ready engine whose vector path raised inside: the query vector's
\* dimension is not the index's.
C6_Witness ==
    /\ last_call.called
    /\ faiss_index.built /\ embeddings # <<>>
    /\ FaissRaises(QueryEmbedding(EnhancedQuery, last_call.provider_ok))
    /\ last_call.text = ErrorText(last_call.language)

\* C7: for top_k >= 1 the returned string holds at most top_k and at most
\* len(chunks) source blocks, on both paths, also with top_k above the corpus size.
C7_AtMostTopKBlocks ==
    last_call.called =>
        /\ Cardinality(BlockStarts(last_call.text)) <= last_call.top_k
        /\ Cardinality(BlockStarts(last_call.text)) <= Len(chunks)

\* A call with top_k above the corpus size has returned every chunk.
C7_Witness ==
    /\ last_call.called
    /\ last_call.top_k > Len(chunks)
    /\ Len(chunks) > 0
    /\ Cardinality(BlockStarts(last_call.text)) = Len(chunks)

\* The recorded call's vector path ran and no fetched neighbour survived the filter.
VectorFoundNothing ==
    /\ last_call.called
    /\ VectorRan
    /\ CallVectorHits = <<>>

KeywordHeader == IF last_call.language = "he" THEN "hdr_kw_he" ELSE "hdr_kw_en"

IsKeywordResult == last_call.text # <<>> /\ last_call.text[1] = KeywordHeader

\* C8: when the vector path finds nothing and a filtered chunk contains a token
\* of the enhanced query, the result is a keyword result with such a chunk.
C8_KeywordReturnsTokenChunk ==
    (VectorFoundNothing /\ TokenChunks # {}) =>
        /\ IsKeywordResult
        /\ \E i \in BlockStarts(last_call.text) :
               ChunkOfTag(BlockTag(last_call.text, i)) \in TokenChunks

\* C9: on a ready knowledge base, when neither path finds a chunk, the result is
\* the no-relevant-information sentinel of the requested language.
C9_NoInfoSentinel ==
    (VectorFoundNothing /\ is_embeddings_ready /\ CallKeywordHits = <<>>) =>
        last_call.text = NoResultsText(last_call.language)

\* The recorded call and its repetition both use the fallback embedder.
FallbackEmbedder == ~last_call.provider_ok /\ ~last_call'.provider_ok

C11_ClearedNotReady ==
    cleared =>
        /\ ~is_embeddings_ready
        /\ ~get_stats.embeddings_ready
        /\ get_stats.total_embeddings = 0 /\ ~get_stats.has_faiss_index
        /\ (last_call.called =>
                /\ last_call.text # Raise
                /\ last_call.text = <<"not_ready">>)

\* A knowledge base that was ready (fallback embeddings over loaded chunks) has
\* been cleared and then searched.
C11_Witness ==
    /\ cleared
    /\ azure_client = None
    /\ is_loaded
    /\ last_call.called
    /\ last_call.text = <<"not_ready">>

\* C12: after clear_embeddings the engine serves chunk text by keyword matching:
\* a search whose query token occurs in the content of a chunk the filter lets
\* through returns a block of such a chunk, not only the not-ready message.
C12_ClearedServesKeyword ==
    (cleared /\ last_call.called /\ TokenChunks # {}) =>
        /\ last_call.text # <<"not_ready">>
        /\ \E i \in BlockStarts(last_call.text) :
               ChunkOfTag(BlockTag(last_call.text, i)) \in TokenChunks

\* The recorded call is the end-to-end scenario: a ready knowledge base over two
\* documents (6 chunks), a query that names the service of one of them, a filter,
\* and top_k at its default.
TwoDocumentScenario ==
    /\ last_call.called
    /\ is_embeddings_ready
    /\ Len(docs) = 2 /\ Len(chunks) = 6
    /\ last_call.top_k = default_top_k
    /\ last_call.hmo_name # None
    /\ \E d \in 1..Len(docs) : last_call.query = <<docs[d].service>>

\* The returned string is a result of the vector path with blocks.
IsVectorResult ==
    /\ last_call.text # <<>>
    /\ last_call.text[1] = (IF last_call.language = "he" THEN "hdr_vec_he" ELSE "hdr_vec_en")

\* C13 as stated: in the scenario the call returns exactly one source block,
\* tagged with the service of the query and the entity of the filter.
C13_ExactlyOneBlock ==
    TwoDocumentScenario =>
        BlockTags(last_call.text) =
            << [service |-> last_call.query[1], chunk_type |-> HmoOf(last_call.hmo_name)] >>

\* C13 amended: in the scenario every returned block is of the entity of the
\* filter, there are at most two blocks (one per document), and a result of the
\* vector path holds both documents' chunks of that entity, the other service's
\* included.
C13_BlocksOfEntityOnly ==
    TwoDocumentScenario =>
        /\ \A i \in 1..Len(BlockTags(last_call.text)) :
               BlockTags(last_call.text)[i].chunk_type = HmoOf(last_call.hmo_name)
        /\ Len(BlockTags(last_call.text)) <= 2
        /\ (IsVectorResult =>
                { BlockTags(last_call.text)[i].service :
                      i \in 1..Len(BlockTags(last_call.text)) }
                    = { docs[d].service : d \in 1..Len(docs) })

\* The scenario has returned a vector result with the block of the other service.
C13_Witness ==
    /\ TwoDocumentScenario
    /\ IsVectorResult
    /\ Len(BlockTags(last_call.text)) = 2
    /\ \E i \in 1..2 : BlockTags(last_call.text)[i].service # last_call.query[1]

\* C14: search_services attempts retrieval exactly when is_embeddings_ready() is
\* true; in every other state (empty corpus, index not built, cleared) it
\* returns the not-ready message.
C14_RetrievalIffReady ==
    last_call.called => (last_call.text = <<"not_ready">> <=> ~is_embeddings_ready)

\* The provider embedded some chunk of the build and failed for another one.
PartialProviderFailure ==
    /\ azure_client # None
    /\ \E i, j \in 1..Len(chunks) :
           /\ ProviderAnswers(chunks[i].content)
           /\ ~ProviderAnswers(chunks[j].content)

\* The embeddings list is what the batch loop leaves: for every chunk the
\* provider's vector when the provider answered, the fallback vector otherwise.
BatchLoopEmbeddings ==
    /\ Len(embeddings) = Len(chunks)
    /\ \A i \in 1..Len(chunks) :
           embeddings[i] = IF ProviderAnswers(chunks[i].content)
                           THEN AzureEmbedding(chunks[i].content)
                           ELSE create_simple_embedding(chunks[i].content)

\* C15: when the provider fails for some but not all chunks of the batch build
\* (the failing chunks hold fallback embeddings, the others their provider
\* embeddings), the build completes with the index built and
\* is_embeddings_ready() true.
C15_PartialFailureStillReady ==
    (pc = "done" /\ ~cleared /\ PartialProviderFailure /\ BatchLoopEmbeddings) =>
        /\ faiss_index.built
        /\ is_embeddings_ready

\* The (service, chunk_type) pairs the documents of ds contribute when every
\* readable one gives its three chunks and an unreadable one gives none.
RECURSIVE ExpectedTags(_)
ExpectedTags(ds) ==
    IF ds = <<>> THEN <<>>
    ELSE (IF Head(ds).fault = "read" THEN <<>>
          ELSE [i \in 1..3 |-> [service |-> Head(ds).service, chunk_type |-> HMOS[i]]])
         \o ExpectedTags(Tail(ds))

ChunkTags == [i \in 1..Len(chunks) |-> [service |-> chunks[i].service,
                                         chunk_type |-> chunks[i].chunk_type]]

SomeDocumentFails == \E d \in 1..Len(docs) : docs[d].fault = "read"

DictionaryTokens ==
    {" "} \cup { medical_terms_mapping[i].english : i \in 1..Len(medical_terms_mapping) }
          \cup UNION { UNION { { medical_terms_mapping[i].hebrew[k][j] :
                                     j \in 1..Len(medical_terms_mapping[i].hebrew[k]) } :
                               k \in 1..Len(medical_terms_mapping[i].hebrew) } :
                       i \in 1..Len(medical_terms_mapping) }

\* No key of the dictionary and none of its Hebrew terms occurs in the query.
NoTermMatches(query) ==
    \A i \in 1..Len(medical_terms_mapping) :
        /\ ~Has(LowerText(query), medical_terms_mapping[i].english)
        /\ \A k \in 1..Len(medical_terms_mapping[i].hebrew) :
               ~PhraseIn(medical_terms_mapping[i].hebrew[k], LowerText(query))

\* C17: the enhanced query starts with the original query unchanged and differs
\* from it only by a space and appended dictionary terms; when no dictionary
\* term matches, or on an internal error, it equals the original query.
C17_EnhancementOnlyAppends ==
    last_call.called =>
        LET q == last_call.query
            e == last_call.text
        IN /\ Len(e) >= Len(q)
           /\ SubSeq(e, 1, Len(q)) = q
           /\ (e # q =>
                  /\ Len(e) >= Len(q) + 2
                  /\ e[Len(q) + 1] = " "
                  /\ e[Len(e)] # " "
                  /\ \A j \in (Len(q) + 1)..Len(e) : e[j] \in DictionaryTokens)
           /\ (NoTermMatches(q) => e = q)
           /\ (last_call.raises => e = q)

\* A query with a capital letter and a dictionary key has been enhanced with
\* the key's Hebrew terms.
C17_Witness ==
    /\ last_call.called
    /\ ~last_call.raises
    /\ last_call.query = <<"zzz", " ", "Dental">>
    /\ last_call.text = <<"zzz", " ", "Dental", " ", "he_shinayim", " ", "he_shinei", " ",
                          "he_dentali">>

\* The other language tag.
OtherLanguage(language) == IF language = "he" THEN "en" ELSE "he"

\* What the recorded call returns when only its language argument is changed.
OtherLanguageText ==
    search_services(last_call.query, last_call.hmo_name, last_call.top_k,
                    OtherLanguage(last_call.language), last_call.provider_ok)

\* C18: the language argument only selects the header and the messages: on the
\* same engine, the calls with "he" and with "en" and otherwise equal arguments
\* return the same chunks in the same order.
C18_LanguageOnlySelectsTexts ==
    last_call.called => BlockTags(last_call.text) = BlockTags(OtherLanguageText)

\* The chunks of the asked service that the asked HMO names (all of the service
\* when no HMO is asked), HMO by HMO in the order maccabi, meuhedet, clalit.
QualifyingChunks ==
    Concat([h \in 1..Len(HMOS) |->
               SelectSeq(chunks,
                         LAMBDA c : /\ c.service = last_call.service_name
                                    /\ c.chunk_type = HMOS[h]
                                    /\ (last_call.hmo_name # None =>
                                            c.hmo = HmoOf(last_call.hmo_name)))])

\* C19: get_service_info returns exactly the chunks of the given service (and of
\* the given HMO when one is given), each as "[Hebrew label] content", ordered
\* maccabi, meuhedet, clalit; when no chunk qualifies it returns a not-found
\* message.
C19_ServiceInfoBlocks ==
    last_call.called =>
        IF QualifyingChunks # <<>>
        THEN last_call.text =
                 Join([i \in 1..Len(QualifyingChunks) |->
                          <<"[", HebrewOf(QualifyingChunks[i].chunk_type), "] ">>
                              \o QualifyingChunks[i].content],
                      <<"\n", "\n">>)
        ELSE /\ last_call.text \in
                    { <<"NF", "al", last_call.service_name, "for", last_call.hmo_name>>,
                      <<"sherut", last_call.service_name, "lo_nimtza">> }
             /\ (last_call.text[1] = "NF" <=> last_call.hmo_name # None)

\* On a corpus of several files the three chunks of one service have been
\* returned under their Hebrew labels, in the order maccabi, meuhedet, clalit.
C19_Witness ==
    /\ last_call.called
    /\ Len(chunks) >= 6
    /\ last_call.service_name = "optometry"
    /\ last_call.hmo_name = None
    /\ LET starts == { i \in 1..Len(last_call.text) : last_call.text[i] = "[" }
       IN /\ Cardinality(starts) = 3
          /\ last_call.text[2] = "he_maccabi"
          /\ \E i, j \in starts :
                 /\ 1 < i /\ i < j
                 /\ last_call.text[i + 1] = "he_meuhedet"
                 /\ last_call.text[j + 1] = "he_clalit"

\* The place of every index position among the neighbours of query_vector,
\* nearest first (the lower position first among equals).
NeighbourRanks(vectors, query_vector) ==
    LET d == [p \in 1..Len(vectors) |-> Dist(vectors[p], query_vector)]
    IN [p \in 1..Len(vectors) |->
           1 + Cardinality({ q \in 1..Len(vectors) :
                                 d[q] < d[p] \/ (d[q] = d[p] /\ q < p) })]

\* The positions among the min(top_k*3, len(chunks)) nearest neighbours.
FetchedPositions(rank, top_k) ==
    { p \in DOMAIN rank : rank[p] <= Min(top_k * 3, Len(chunks)) }

\* The fetched positions that hold a chunk the filter lets through, cut after
\* the top_k nearest of them.
KeptPositions(rank, top_k, hmo_name) ==
    LET matching == { p \in FetchedPositions(rank, top_k) :
                          p <= Len(chunks) /\ Passes(hmo_name, chunks[p]) }
    IN { p \in matching : Cardinality({ q \in matching : rank[q] < rank[p] }) < top_k }

\* The chunks at the positions of kept, nearest first.
InRankOrder(rank, kept) ==
    [i \in 1..Cardinality(kept) |->
        chunks[CHOOSE p \in kept : Cardinality({ q \in kept : rank[q] < rank[p] }) = i - 1]]

\* The neighbour ranks for the recorded call's query vector.
CallRanks ==
    NeighbourRanks(faiss_index.vectors,
                   QueryEmbedding(EnhancedQuery, last_call.provider_ok))

\* C20: the vector path fetches the min(top_k*3, len(chunks)) nearest neighbours
\* and walks them by ascending distance; it keeps the chunks that pass the
\* filter, in that order, until top_k are kept or the candidates are exhausted;
\* without a filter on a ready engine these are the first top_k neighbours; a
\* matching chunk beyond the fetched candidates is never returned.
C20_VectorPathWalk ==
    (last_call.called /\ VectorRan) =>
        LET rank == CallRanks
            kept == KeptPositions(rank, last_call.top_k, last_call.hmo_name)
            expected == InRankOrder(rank, kept)
        IN /\ CallVectorHits = expected
           /\ (IsVectorResult =>
                   BlockTags(last_call.text) =
                       [i \in 1..Len(expected) |->
                           [service |-> expected[i].service,
                            chunk_type |-> expected[i].chunk_type]])
           /\ (last_call.hmo_name = None /\ is_embeddings_ready =>
                   kept = { p \in 1..Len(chunks) :
                                rank[p] <= Min(last_call.top_k, Len(chunks)) })

\* A filtered call has returned a vector result while a chunk that passes the
\* filter lies beyond the fetched neighbours and is not in the result.
C20_Witness ==
    /\ last_call.called /\ VectorRan /\ IsVectorResult
    /\ is_embeddings_ready
    /\ last_call.hmo_name # None
    /\ \E p \in 1..Len(chunks) :
           /\ Passes(last_call.hmo_name, chunks[p])
           /\ p \notin FetchedPositions(CallRanks, last_call.top_k)
           /\ \A i \in BlockStarts(last_call.text) :
                  BlockTag(last_call.text, i).service # chunks[p].service

\* The positions of the chunks that pass the filter of the recorded call and
\* whose lowercased content contains a search token of the enhanced query.
KeywordCandidates ==
    LET terms == SearchTerms(EnhancedQuery)
    IN { p \in 1..Len(chunks) :
           /\ Passes(last_call.hmo_name, chunks[p])
           /\ \E t \in 1..Len(terms) : ChunkHasTerm(p, terms[t]) }

\* The first top_k of a set of positions, in corpus order.
FirstInCorpusOrder(positions, top_k) ==
    LET kept == { p \in positions : Cardinality({ q \in positions : q < p }) < top_k }
    IN [i \in 1..Cardinality(kept) |->
           chunks[CHOOSE p \in kept : Cardinality({ q \in kept : q < p }) = i - 1]]

\* C21: the keyword path scans the chunks in corpus order, skips those the
\* filter rejects, and returns exactly the first top_k chunks whose lowercased
\* content contains a search token; no other chunk is returned.
C21_KeywordFirstTopK ==
    (last_call.called /\ faiss_index.built /\ embeddings # <<>>) =>
        LET expected == FirstInCorpusOrder(KeywordCandidates, last_call.top_k)
        IN /\ CallKeywordHits = expected
           /\ (IsKeywordResult =>
                   BlockTags(last_call.text) =
                       [i \in 1..Len(expected) |->
                           [service |-> expected[i].service,
                            chunk_type |-> expected[i].chunk_type]])

\* A keyword result of a filtered top_k = 1 call holds the first of several
\* chunks that pass the filter and contain a search token.
C21_Witness ==
    /\ last_call.called
    /\ IsKeywordResult
    /\ last_call.hmo_name # None
    /\ last_call.top_k = 1
    /\ Cardinality(KeywordCandidates) >= 2
    /\ Cardinality(BlockStarts(last_call.text)) = 1

\* C22: a keyword result is formatted like a vector result except for its
\* header: after the header, the chunks the keyword path found are rendered as
\* the numbered blocks "SOURCE n: [service - hmo]" with the content, separated by
\* a blank line.
C22_SameBlockFormat ==
    (last_call.called /\ IsKeywordResult) =>
        Tail(last_call.text) =
            Join([i \in 1..Len(CallKeywordHits) |-> VectorBlock(i, CallKeywordHits[i])],
                 <<"\n", "\n">>)

\* What the vector path of the recorded call returns (line 433).
CallVectorText ==
    vector_search(EnhancedQuery, last_call.top_k, last_call.language, last_call.hmo_name,
                  last_call.provider_ok)

\* C23: a vector result of 100 characters or more that holds source blocks is
\* returned unchanged, whatever text the chunk contents contain: the keyword
\* path runs only when the vector result is the no-information sentinel or is
\* shorter than 100 characters.
C23_LongVectorResultReturned ==
    (last_call.called /\ VectorRan /\ CallVectorHits # <<>>
         /\ StrLen(CallVectorText) >= MinResultLen) =>
        last_call.text = CallVectorText

\* The lines of the recorded content.
SpanLines == SplitLines(last_call.content, <<>>)

\* The first line with the entity's label.
FirstLabelLine ==
    CHOOSE i \in 1..Len(SpanLines) :
        /\ Has(SpanLines[i], last_call.hmo_hebrew)
        /\ \A j \in 1..(i - 1) : ~Has(SpanLines[j], last_call.hmo_hebrew)

\* Line j mentions another tracked label and not the entity's own.
MentionsOtherOnly(j) ==
    /\ \E other \in HebrewLabels \ {last_call.hmo_hebrew} : Has(SpanLines[j], other)
    /\ ~Has(SpanLines[j], last_call.hmo_hebrew)

\* The first such line after the first label line, or one past the last line.
StopLine ==
    IF \E j \in (FirstLabelLine + 1)..Len(SpanLines) : MentionsOtherOnly(j)
    THEN CHOOSE j \in (FirstLabelLine + 1)..Len(SpanLines) :
             /\ MentionsOtherOnly(j)
             /\ \A k \in (FirstLabelLine + 1)..(j - 1) : ~MentionsOtherOnly(k)
    ELSE Len(SpanLines) + 1

C25_FailureTextLocalized ==
    (last_call.called /\ ~(faiss_index.built /\ embeddings # <<>>)) =>
        last_call.text # OtherLanguageText

\* The step is a call of clear_embeddings.
ClearStep == cleared' /\ ~last_call'.called /\ (~cleared \/ last_call.called)

\* C26: clear_embeddings empties the embedding list and drops the index and
\* changes nothing else: the chunk list, is_loaded(), get_all_services(),
\* get_service_info() and the chunk count of get_stats() are the same before and
\* after; a second call changes neither the embeddings nor the index.
C26_ClearKeepsChunks ==
    [][ClearStep =>
          /\ embeddings' = <<>> /\ ~faiss_index'.built
          /\ chunks' = chunks /\ docs' = docs /\ azure_client' = azure_client
          /\ is_loaded' = is_loaded
          /\ get_all_services' = get_all_services
          /\ get_service_count' = get_service_count
          /\ get_stats'.total_chunks = get_stats.total_chunks
          /\ \A service_name \in get_all_services \cup {"zzz"} :
                 \A hmo_name \in {None, "he_meuhedet"} :
                     get_service_info(service_name, hmo_name)'
                         = get_service_info(service_name, hmo_name)
          /\ (cleared => embeddings' = embeddings /\ faiss_index' = faiss_index)]_vars

\* A knowledge base of several documents has been cleared: no embeddings, no
\* index, all chunks and services still there.
C26_Witness ==
    /\ cleared
    /\ ~last_call.called
    /\ get_stats.total_chunks >= 6
    /\ get_service_count >= 2
    /\ get_stats.total_embeddings = 0
    /\ ~get_stats.has_faiss_index

\* C27: whenever the vector path of a call found at least one chunk (here with
\* no chunk text that holds the not-found phrase), the string the call returns
\* holds at least one source block, in either language, also when the vector
\* result is shorter than 100 characters and the keyword path finds nothing.
C27_VectorHitsNeverLost ==
    (last_call.called /\ VectorRan /\ CallVectorHits # <<>>
         /\ ~HasNotFoundPhrase(CallVectorText)) =>
        BlockStarts(last_call.text) # {}

\* The normalized text of the first document, as handed to the chunk builder.
CleanContent == clean_html(docs[1].raw)

\* The labels of all three HMOs occur in the text.
MentionsAll(text) == \A h \in 1..Len(HMOS) : Has(text, HebrewOf(HMOS[h]))

\* C28: the text handed to the chunk builder holds no line break; for a
\* document that mentions an HMO's label anywhere, the span of that HMO's chunk
\* is the entire normalized document; the three chunks of a document that
\* mentions all three labels have the same text and differ in their metadata.
C28_SpanIsWholeDocument ==
    (Len(chunks) = 3 /\ docs[1].fault = "none") =>
        /\ \A i \in 1..Len(CleanContent) : CleanContent[i] # "\n"
        /\ \A h \in 1..3 :
               Has(CleanContent, HebrewOf(HMOS[h])) =>
                   /\ find_hmo_specific_content(CleanContent, HebrewOf(HMOS[h]))
                          = CleanContent
                   /\ Len(chunks[h].content) >= Len(CleanContent)
                   /\ SubSeq(chunks[h].content, 1, Len(CleanContent)) = CleanContent
        /\ (MentionsAll(CleanContent) =>
                /\ chunks[1].content = chunks[2].content
                /\ chunks[2].content = chunks[3].content
                /\ \A h \in 1..3 : chunks[h].chunk_type = HMOS[h])

\* A document that names the three HMOs has been chunked into three chunks of
\* the same text.
C28_Witness ==
    /\ Len(chunks) = 3
    /\ docs[1].fault = "none"
    /\ MentionsAll(docs[1].raw)
    /\ chunks[1].content = docs[1].raw
    /\ chunks[3].content = docs[1].raw
    /\ chunks[1].chunk_type # chunks[3].chunk_type

\* C29: when clear_embeddings runs beside a call of search_services, after the
\* call's readiness test and before or during its index access, the call still
\* returns a string without raising, and every source block it returns is of a
\* chunk of the chunk list.
C29_RacingClearIsHarmless ==
    last_call.called =>
        /\ last_call.text # Raise
        /\ StrLen(last_call.text) > 0
        /\ \A i \in BlockStarts(last_call.text) :
               \E c \in 1..Len(chunks) :
                   /\ chunks[c].service = BlockTag(last_call.text, i).service
                   /\ chunks[c].chunk_type = BlockTag(last_call.text, i).chunk_type

\* A call passed its readiness test, found the index gone at its access, and
\* returned blocks of the keyword path.
C29_Witness ==
    /\ last_call.called
    /\ cleared
    /\ last_call.stage = "returned"
    /\ last_call.text # <<"not_ready">>
    /\ ~last_call.index.built
    /\ BlockStarts(last_call.text) # {}

\* C30: the chat endpoint enters the phase qa only through a confirmed
\* validation.  A request of the phase info_collection is answered with
\* validation when the extracted info is complete and with info_collection
\* otherwise; a request of the phase validation is answered with qa, carrying
\* user_info and user_info_complete, only when the extracted info is complete
\* and the message holds a confirmation word, and otherwise with
\* info_collection or validation; a request of the phase qa is answered with qa.
C30_QaOnlyThroughConfirmedValidation ==
    last_call.called =>
        LET request == last_call.request
            response == last_call.response
            extracted_info == last_call.extracted_info
            complete == extracted_info.present /\ is_user_info_complete(extracted_info)
            confirmation_word ==
                \E word \in {"yes", "ken", "nachon"} : Has(request.message, word)
        IN /\ last_call.current_phase = response.phase
           /\ request.phase = "info_collection" =>
                  response.phase = (IF complete THEN "validation" ELSE "info_collection")
           /\ request.phase = "validation" =>
                  /\ response.phase \in {"qa", "info_collection", "validation"}
                  /\ response.phase = "qa" =>
                         /\ complete /\ confirmation_word
                         /\ response.user_info.present
                         /\ response.user_info_complete
           /\ request.phase = "qa" => response.phase = "qa"
           /\ (response.phase = "qa" /\ request.phase # "qa") =>
                  request.phase = "validation" /\ complete /\ confirmation_word

\* A session that went through all three phases: the last request was of the
\* phase qa, with the user_info that a confirmed validation gave.
C30_Witness ==
    /\ last_call.called
    /\ last_call.request.phase = "qa"
    /\ last_call.response.phase = "qa"
    /\ last_call.user_info.present
    /\ last_call.response.user_info_complete

====
